---- MODULE Spec2Model ----
(***************************************************************************)
(* Model of check.py: the powerset enumerator, the check coroutine that    *)
(* drives one cargo invocation per feature subset, and run/main, which     *)
(* launch the four configurations under asyncio.gather.                    *)
(*                                                                         *)
(* A Python string is modelled as a sequence of tokens, so that f-strings  *)
(* and str.join are concatenations that can be parsed back.                *)
(***************************************************************************)
EXTENDS Integers, Sequences, FiniteSets, TLC

VARIABLES
    cfgs,        \* the keyword arguments of each launched check(...) call
    version,     \* sys.version_info as <<major, minor>>
    hashOrder,   \* iteration order of str sets in this interpreter run
    mainpc,      \* position of main / run
    pc,          \* position of every check task
    idx,         \* 1-based position of the for loop of check in powerset(features)
    procs,       \* per task, the subprocesses it created, oldest first
    error,       \* per task, the message of the Exception it raised
    outer,       \* the future returned by asyncio.gather
    nfinished,   \* gather's count of children finished without exception
    firstExit,   \* the task whose subprocess was the first to exit non-zero, 0 if none
    firstRaise,  \* the task that was the first to raise, 0 if none
    ps_pc,       \* position of the outermost powerset call being stepped
    input,       \* powerset: its argument
    pivot,       \* powerset: local pivot
    subset,      \* powerset: local subset
    with_pivot,  \* powerset: local with_pivot
    i,           \* powerset: loop index of enumerate(with_pivot), 1-based
    result,      \* powerset: returned list
    input0,      \* content of the argument list when the caller built it
    prev,        \* what the previous call on the same list returned
    calls        \* number of calls made on the list so far

vars == <<cfgs, version, hashOrder, mainpc, pc, idx, procs, error, outer,
          nfinished, firstExit, firstRaise, ps_pc, input, pivot, subset, with_pivot, i, result,
          input0, prev, calls>>

progvars == <<cfgs, version, hashOrder, mainpc, pc, idx, procs, error, outer, nfinished,
              firstExit, firstRaise>>
psvars == <<ps_pc, input, pivot, subset, with_pivot, i, result, input0, prev, calls>>

-----------------------------------------------------------------------------
(* Bounds and input sets *)

MaxFeatures == 2
MaxItems == 3
MaxCalls == 2
PipeCapacity == 1

Names == {"sync", "alloc", "std"}
Items == {"a", "b", "c", "d"}
Toolchains == {"stable", "nightly"}
NoTarget == "None"
Targets == {NoTarget, "wasm32-unknown-unknown"}
PyVersions == {<<2, 7>>, <<3, 3>>, <<3, 4>>, <<3, 7>>}
Outcomes == {[returncode |-> 0, stderr |-> <<>>],
             [returncode |-> 101, stderr |-> <<"error: could not compile">>]}

Range(s) == {s[k] : k \in DOMAIN s}

DistinctSeqs(S, n) ==
    {s \in UNION {[1..m -> S] : m \in 0..n} :
        \A j, k \in DOMAIN s : j # k => s[j] # s[k]}

Orders(S) == {s \in [1..Cardinality(S) -> S] : Range(s) = S}

Pow2(n) == 2 ^ n

-----------------------------------------------------------------------------
(* powerset, as a function *)

RECURSIVE powerset_EmptyBase(_)
powerset_EmptyBase(inp) ==
    IF Len(inp) = 0
    THEN <<>>
    ELSE LET p == inp[1]
             sub == powerset_EmptyBase(Tail(inp))
             wp == [k \in 1..Len(sub) |-> <<p>> \o sub[k]]
         IN  sub \o wp

RECURSIVE powerset_NoPrepend(_)
powerset_NoPrepend(inp) ==
    IF Len(inp) = 0
    THEN << <<>> >>
    ELSE LET sub == powerset_NoPrepend(Tail(inp))
             wp == sub
         IN  sub \o wp

RECURSIVE powerset(_)
powerset(inp) ==
    IF Len(inp) = 0
    THEN << <<>> >>
    ELSE LET p == inp[1]
             sub == powerset(Tail(inp))
             wp == [k \in 1..Len(sub) |-> <<p>> \o sub[k]]
         IN  sub \o wp

-----------------------------------------------------------------------------
(* check: argument construction *)

features == <<"sync", "alloc">>

RunConfigs ==
    << [toolchain |-> "nightly", target |-> NoTarget,
        features |-> features, mandatory_features |-> {}],
       [toolchain |-> "stable", target |-> NoTarget,
        features |-> features, mandatory_features |-> {}],
       [toolchain |-> "nightly", target |-> "wasm32-unknown-unknown",
        features |-> features, mandatory_features |-> {}],
       [toolchain |-> "stable", target |-> "wasm32-unknown-unknown",
        features |-> features, mandatory_features |-> {}] >>

RECURSIVE join(_, _)
join(sep, strs) ==
    IF Len(strs) = 0 THEN <<>>
    ELSE IF Len(strs) = 1 THEN strs[1]
    ELSE strs[1] \o <<sep>> \o join(sep, Tail(strs))

SetOrder(S) == SelectSeq(hashOrder, LAMBDA x : x \in S)

SubsetAt_Reversed(c, k) ==
    LET ps == powerset(c.features)
    IN  Range(ps[Len(ps) + 1 - k]) \cup c.mandatory_features

SubsetAt_Intersect(c, k) == Range(powerset(c.features)[k]) \cap c.mandatory_features

SubsetAt(c, k) == Range(powerset(c.features)[k]) \cup c.mandatory_features

Args_AlwaysFlag(c, s) ==
    LET base == << <<"+", c.toolchain>>, <<"check">>,
                   <<"--no-default-features">>, <<"--examples">> >>
        names == [k \in 1..Cardinality(s) |-> <<SetOrder(s)[k]>>]
        feat == << <<"--features=">> \o join(",", names) >>
        targ == IF c.target # NoTarget
                THEN << <<"--target=", c.target>> >>
                ELSE <<>>
    IN  base \o feat \o targ

Args_TargetAlways(c, s) ==
    LET base == << <<"+", c.toolchain>>, <<"check">>,
                   <<"--no-default-features">>, <<"--examples">> >>
        names == [k \in 1..Cardinality(s) |-> <<SetOrder(s)[k]>>]
        feat == IF Cardinality(s) > 0
                THEN << <<"--features=">> \o join(",", names) >>
                ELSE <<>>
        targ == << <<"--target=", c.target>> >>
    IN  base \o feat \o targ

Args(c, s) ==
    LET base == << <<"+", c.toolchain>>, <<"check">>,
                   <<"--no-default-features">>, <<"--examples">> >>
        names == [k \in 1..Cardinality(s) |-> <<SetOrder(s)[k]>>]
        feat == IF Cardinality(s) > 0
                THEN << <<"--features=">> \o join(",", names) >>
                ELSE <<>>
        targ == IF c.target # NoTarget
                THEN << <<"--target=", c.target>> >>
                ELSE <<>>
    IN  base \o feat \o targ

ReprStreamReader(buf) ==
    <<"<StreamReader">>
    \o (IF Len(buf) > 0 THEN <<" ", ToString(Len(buf)), " bytes">> ELSE <<>>)
    \o <<">">>

BackQuote == "backquote"

ErrorMessage(args, buf) ==
    <<BackQuote, "cargo", " ">> \o join(" ", args)
    \o <<BackQuote, " failed", "\\n">> \o ReprStreamReader(buf)

-----------------------------------------------------------------------------
(* The program: main, run, check *)

Tasks == DOMAIN cfgs

NoError == <<>>
Pending == [state |-> "pending", exc |-> NoError]

Last(t) == procs[t][Len(procs[t])]

Parked ==
    /\ ps_pc = "idle"
    /\ input = <<>>
    /\ pivot = "none"
    /\ subset = <<>>
    /\ with_pivot = <<>>
    /\ i = 0
    /\ result = <<>>
    /\ input0 = <<>>
    /\ prev = <<>>
    /\ calls = 0

InitWith(cs) ==
    /\ cfgs = cs
    /\ version \in PyVersions
    /\ hashOrder \in Orders(UNION {Range(cs[t].features) \cup cs[t].mandatory_features
                                           : t \in DOMAIN cs})
    /\ mainpc = "main"
    /\ pc = [t \in DOMAIN cs |-> "new"]
    /\ idx = [t \in DOMAIN cs |-> 0]
    /\ procs = [t \in DOMAIN cs |-> <<>>]
    /\ error = [t \in DOMAIN cs |-> NoError]
    /\ outer = Pending
    /\ nfinished = 0
    /\ firstExit = 0
    /\ firstRaise = 0
    /\ Parked

Init == InitWith(RunConfigs)

InitCheck ==
    \E tc \in Toolchains, tg \in Targets,
       fs \in DistinctSeqs(Names, MaxFeatures), m \in SUBSET Names :
        InitWith(<< [toolchain |-> tc, target |-> tg,
                     features |-> fs, mandatory_features |-> m] >>)

Main ==
    /\ mainpc = "main"
    /\ IF version[1] >= 3 /\ version[2] >= 4
       THEN /\ mainpc' = "await"
            /\ pc' = [t \in Tasks |-> "start"]
       ELSE /\ mainpc' = "exit1"
            /\ UNCHANGED pc
    /\ UNCHANGED <<cfgs, version, hashOrder, idx, procs, error, outer, nfinished,
                   firstExit, firstRaise>>
    /\ UNCHANGED psvars

Spawn(t, k) ==
    /\ procs' = [procs EXCEPT ![t] =
                    Append(@, [args |-> Args(cfgs[t], SubsetAt(cfgs[t], k)),
                               status |-> "running",
                               returncode |-> 0,
                               stderr |-> <<>>])]
    /\ idx' = [idx EXCEPT ![t] = k]
    /\ pc' = [pc EXCEPT ![t] = "wait"]
    /\ UNCHANGED <<error, outer, nfinished, firstRaise>>

Return(t) ==
    /\ pc' = [pc EXCEPT ![t] = "done"]
    /\ IF outer.state = "pending"
       THEN /\ nfinished' = nfinished + 1
            /\ outer' = IF nfinished + 1 = Len(cfgs)
                        THEN [state |-> "result", exc |-> NoError]
                        ELSE outer
       ELSE UNCHANGED <<nfinished, outer>>
    /\ UNCHANGED <<idx, procs, error, firstRaise>>

Raise_Swallowed(t, msg) ==
    /\ pc' = [pc EXCEPT ![t] = "failed"]
    /\ error' = [error EXCEPT ![t] = msg]
    /\ IF outer.state = "pending"
       THEN /\ nfinished' = nfinished + 1
            /\ outer' = IF nfinished + 1 = Len(cfgs)
                        THEN [state |-> "result", exc |-> NoError]
                        ELSE outer
       ELSE UNCHANGED <<nfinished, outer>>
    /\ firstRaise' = IF firstRaise = 0 THEN t ELSE firstRaise
    /\ UNCHANGED <<idx, procs>>

Raise_CancelSiblings(t, msg) ==
    /\ pc' = [u \in Tasks |->
                IF u = t THEN "failed"
                ELSE IF pc[u] \in {"start", "wait"} THEN "cancelled" ELSE pc[u]]
    /\ error' = [error EXCEPT ![t] = msg]
    /\ outer' = IF outer.state = "pending"
                THEN [state |-> "exception", exc |-> msg]
                ELSE outer
    /\ firstRaise' = IF firstRaise = 0 THEN t ELSE firstRaise
    /\ UNCHANGED <<idx, procs, nfinished>>

Raise_ListOrder(t, msg) ==
    /\ pc' = [pc EXCEPT ![t] = "failed"]
    /\ error' = [error EXCEPT ![t] = msg]
    /\ outer' = LET F == {u \in Tasks : pc[u] = "failed"} \cup {t}
                    m == CHOOSE u \in F : \A v \in F : u <= v
                IN  [state |-> "exception", exc |-> error'[m]]
    /\ firstRaise' = IF firstRaise = 0 THEN t ELSE firstRaise
    /\ UNCHANGED <<idx, procs, nfinished>>

Raise(t, msg) ==
    /\ pc' = [pc EXCEPT ![t] = "failed"]
    /\ error' = [error EXCEPT ![t] = msg]
    /\ outer' = IF outer.state = "pending"
                THEN [state |-> "exception", exc |-> msg]
                ELSE outer
    /\ firstRaise' = IF firstRaise = 0 THEN t ELSE firstRaise
    /\ UNCHANGED <<idx, procs, nfinished>>

TaskStart(t) ==
    /\ mainpc = "await"
    /\ pc[t] = "start"
    /\ IF Len(powerset(cfgs[t].features)) = 0
       THEN Return(t)
       ELSE Spawn(t, 1)
    /\ UNCHANGED <<cfgs, version, hashOrder, mainpc, firstExit>>
    /\ UNCHANGED psvars

ProcExit(t) ==
    /\ mainpc = "await"
    /\ pc[t] = "wait"
    /\ Last(t).status = "running"
    /\ \E o \in Outcomes :
        /\ Len(Last(t).stderr) + Len(o.stderr) <= PipeCapacity
        /\ procs' = [procs EXCEPT ![t][Len(procs[t])] =
                     [@ EXCEPT !.status = "exited",
                               !.returncode = o.returncode,
                               !.stderr = @ \o o.stderr]]
        /\ firstExit' = IF firstExit = 0 /\ o.returncode # 0 THEN t ELSE firstExit
    /\ UNCHANGED <<cfgs, version, hashOrder, mainpc, pc, idx, error, outer, nfinished,
                   firstRaise>>
    /\ UNCHANGED psvars

WaitReturn_IgnoreCode(t) ==
    /\ mainpc = "await"
    /\ pc[t] = "wait"
    /\ Last(t).status = "exited"
    /\ IF idx[t] < Len(powerset(cfgs[t].features))
       THEN Spawn(t, idx[t] + 1)
       ELSE Return(t)
    /\ UNCHANGED <<cfgs, version, hashOrder, mainpc, firstExit>>
    /\ UNCHANGED psvars

WaitReturn_NoWait(t) ==
    /\ mainpc = "await"
    /\ pc[t] = "wait"
    /\ IF Last(t).returncode # 0
       THEN Raise(t, ErrorMessage(Last(t).args, Last(t).stderr))
       ELSE IF idx[t] < Len(powerset(cfgs[t].features))
            THEN Spawn(t, idx[t] + 1)
            ELSE Return(t)
    /\ UNCHANGED <<cfgs, version, hashOrder, mainpc, firstExit>>
    /\ UNCHANGED psvars

WaitReturn(t) ==
    /\ mainpc = "await"
    /\ pc[t] = "wait"
    /\ Last(t).status = "exited"
    /\ IF Last(t).returncode # 0
       THEN Raise(t, ErrorMessage(Last(t).args, Last(t).stderr))
       ELSE IF idx[t] < Len(powerset(cfgs[t].features))
            THEN Spawn(t, idx[t] + 1)
            ELSE Return(t)
    /\ UNCHANGED <<cfgs, version, hashOrder, mainpc, firstExit>>
    /\ UNCHANGED psvars

MainResume ==
    /\ mainpc = "await"
    /\ outer.state # "pending"
    /\ IF outer.state = "result"
       THEN /\ mainpc' = "returned"
            /\ UNCHANGED pc
       ELSE /\ mainpc' = "raised"
            /\ pc' = IF version[2] >= 7
                     THEN [t \in Tasks |->
                             IF pc[t] \in {"start", "wait"} THEN "cancelled" ELSE pc[t]]
                     ELSE pc
    /\ UNCHANGED <<cfgs, version, hashOrder, idx, procs, error, outer, nfinished,
                   firstExit, firstRaise>>
    /\ UNCHANGED psvars

Next ==
    \/ Main
    \/ \E t \in Tasks : TaskStart(t)
    \/ \E t \in Tasks : ProcExit(t)
    \/ \E t \in Tasks : WaitReturn(t)
    \/ MainResume

Spec == Init /\ [][Next]_vars

SpecCheck == InitCheck /\ [][Next]_vars

-----------------------------------------------------------------------------
(* The standard-error pipe of a subprocess. check never reads proc.stderr  *)
(* while it waits, so what the subprocess writes stays in the pipe and the *)
(* stream reader's buffer; PipeCapacity is their joint size in chunks. A   *)
(* write that finds them full blocks the subprocess. To the program a      *)
(* blocked subprocess is one that is still running, so Next leaves         *)
(* ProcWrite out and NextPipe adds it.                                     *)

ProcWrite(t) ==
    /\ mainpc = "await"
    /\ pc[t] = "wait"
    /\ Last(t).status = "running"
    /\ IF Len(Last(t).stderr) < PipeCapacity
       THEN procs' = [procs EXCEPT ![t][Len(procs[t])].stderr = Append(@, "warning: unused")]
       ELSE procs' = [procs EXCEPT ![t][Len(procs[t])].status = "blocked"]
    /\ UNCHANGED <<cfgs, version, hashOrder, mainpc, pc, idx, error, outer, nfinished,
                   firstExit, firstRaise>>
    /\ UNCHANGED psvars

NextPipe ==
    \/ Next
    \/ \E t \in Tasks : ProcWrite(t)

Scheduling ==
    /\ WF_vars(Main)
    /\ WF_vars(\E t \in Tasks : TaskStart(t))
    /\ WF_vars(\E t \in Tasks : ProcExit(t))
    /\ WF_vars(\E t \in Tasks : WaitReturn(t))
    /\ WF_vars(MainResume)

SpecPipe == InitCheck /\ [][NextPipe]_vars /\ Scheduling

SpecCheckFair == InitCheck /\ [][Next]_vars /\ Scheduling

-----------------------------------------------------------------------------
(* powerset, one call stepped through its statements; the recursive call on *)
(* input[1:] is evaluated by the function above.                            *)

Idle ==
    /\ cfgs = <<>>
    /\ version = <<3, 7>>
    /\ hashOrder = <<>>
    /\ mainpc = "idle"
    /\ pc = <<>>
    /\ idx = <<>>
    /\ procs = <<>>
    /\ error = <<>>
    /\ outer = Pending
    /\ nfinished = 0
    /\ firstExit = 0
    /\ firstRaise = 0

InitPowerset ==
    /\ Idle
    /\ ps_pc = "call"
    /\ input \in DistinctSeqs(Items, MaxItems)
    /\ pivot = "none"
    /\ subset = <<>>
    /\ with_pivot = <<>>
    /\ i = 0
    /\ result = <<>>
    /\ input0 = input
    /\ prev = <<>>
    /\ calls = 1

PsCall_Pop ==
    /\ ps_pc = "call"
    /\ IF Len(input) = 0
       THEN /\ result' = << <<>> >>
            /\ ps_pc' = "returned"
            /\ UNCHANGED <<input, pivot, subset, with_pivot, i>>
       ELSE /\ pivot' = input[1]
            /\ input' = Tail(input)
            /\ subset' = powerset(input')
            /\ with_pivot' = subset'
            /\ i' = 1
            /\ ps_pc' = "loop"
            /\ UNCHANGED result
    /\ UNCHANGED <<input0, prev, calls>>
    /\ UNCHANGED progvars

PsCall ==
    /\ ps_pc = "call"
    /\ IF Len(input) = 0
       THEN /\ result' = << <<>> >>
            /\ ps_pc' = "returned"
            /\ UNCHANGED <<pivot, subset, with_pivot, i>>
       ELSE /\ pivot' = input[1]
            /\ subset' = powerset(SubSeq(input, 2, Len(input)))
            /\ with_pivot' = subset'
            /\ i' = 1
            /\ ps_pc' = "loop"
            /\ UNCHANGED result
    /\ UNCHANGED <<input, input0, prev, calls>>
    /\ UNCHANGED progvars

PsLoop_DropSet ==
    /\ ps_pc = "loop"
    /\ i <= Len(with_pivot)
    /\ with_pivot' = [with_pivot EXCEPT ![i] = <<pivot>>]
    /\ i' = i + 1
    /\ UNCHANGED <<ps_pc, input, pivot, subset, result, input0, prev, calls>>
    /\ UNCHANGED progvars

PsLoop_InPlace ==
    /\ ps_pc = "loop"
    /\ i <= Len(with_pivot)
    /\ with_pivot' = [with_pivot EXCEPT ![i] = <<pivot>> \o with_pivot[i]]
    /\ subset' = [subset EXCEPT ![i] = <<pivot>> \o subset[i]]
    /\ i' = i + 1
    /\ UNCHANGED <<ps_pc, input, pivot, result, input0, prev, calls>>
    /\ UNCHANGED progvars

PsLoop ==
    /\ ps_pc = "loop"
    /\ i <= Len(with_pivot)
    /\ with_pivot' = [with_pivot EXCEPT ![i] = <<pivot>> \o with_pivot[i]]
    /\ i' = i + 1
    /\ UNCHANGED <<ps_pc, input, pivot, subset, result, input0, prev, calls>>
    /\ UNCHANGED progvars

PsReturn_PivotFirst ==
    /\ ps_pc = "loop"
    /\ i > Len(with_pivot)
    /\ result' = with_pivot \o subset
    /\ ps_pc' = "returned"
    /\ UNCHANGED <<input, pivot, subset, with_pivot, i, input0, prev, calls>>
    /\ UNCHANGED progvars

PsReturn ==
    /\ ps_pc = "loop"
    /\ i > Len(with_pivot)
    /\ result' = subset \o with_pivot
    /\ ps_pc' = "returned"
    /\ UNCHANGED <<input, pivot, subset, with_pivot, i, input0, prev, calls>>
    /\ UNCHANGED progvars

PsAgain ==
    /\ ps_pc = "returned"
    /\ calls < MaxCalls
    /\ ps_pc' = "call"
    /\ prev' = result
    /\ calls' = calls + 1
    /\ pivot' = "none"
    /\ subset' = <<>>
    /\ with_pivot' = <<>>
    /\ i' = 0
    /\ result' = <<>>
    /\ UNCHANGED <<input, input0>>
    /\ UNCHANGED progvars

NextPowerset ==
    \/ PsCall
    \/ PsLoop
    \/ PsReturn
    \/ PsAgain

SpecPowerset == InitPowerset /\ [][NextPowerset]_vars

-----------------------------------------------------------------------------
(* Properties of powerset *)

\* C5: for an input of N distinct items powerset returns exactly 2^N
\* subsets, pairwise distinct as sets, every subset of the input among them,
\* the empty subset and the full set each exactly once.
C5_PowersetIsExact ==
    ps_pc = "returned" =>
        /\ Len(result) = Pow2(Len(input))
        /\ \A j, k \in DOMAIN result : j # k => Range(result[j]) # Range(result[k])
        /\ {Range(result[k]) : k \in DOMAIN result} = SUBSET Range(input)
        /\ Cardinality({k \in DOMAIN result : Range(result[k]) = {}}) = 1
        /\ Cardinality({k \in DOMAIN result : Range(result[k]) = Range(input)}) = 1

C5_Witness ==
    /\ ps_pc = "returned"
    /\ Len(input) >= 2
    /\ Len(result) = Pow2(Len(input))

\* C6: powerset([]) = [[]]; for input p : r the result is powerset(r)
\* followed by powerset(r) with p prepended to each member, in the same
\* order; so powerset([a]) = [[], [a]] and
\* powerset([a, b]) = [[], [b], [a], [a, b]].
C6_PivotRuleOrder ==
    ps_pc = "returned" =>
        /\ Len(input) = 0 => result = << <<>> >>
        /\ Len(input) > 0 =>
             LET r == powerset(Tail(input))
             IN  result = r \o [k \in 1..Len(r) |-> <<input[1]>> \o r[k]]
        /\ Len(input) = 1 => result = << <<>>, <<input[1]>> >>
        /\ Len(input) = 2 =>
             result = << <<>>, <<input[2]>>, <<input[1]>>, <<input[1], input[2]>> >>

C6_Witness ==
    /\ ps_pc = "returned"
    /\ input = <<"a", "b">>
    /\ result = << <<>>, <<"b">>, <<"a">>, <<"a", "b">> >>

-----------------------------------------------------------------------------
(* Reading an argument list back *)

FeatureFlags(args) == {k \in DOMAIN args : args[k][1] = "--features="}

FeaturesOf(args) ==
    UNION {{tok \in Range(Tail(args[k])) : tok # ","} : k \in FeatureFlags(args)}

Contains(hay, needle) ==
    \E k \in 0..(Len(hay) - Len(needle)) : SubSeq(hay, k + 1, k + Len(needle)) = needle

Failed(p) == p.status = "exited" /\ p.returncode # 0
Succeeded(p) == p.status = "exited" /\ p.returncode = 0

-----------------------------------------------------------------------------
(* Properties of check, run and main *)

\* C1: fail-fast per configuration: once an invocation of a check run has
\* exited with a non-zero code it is the last invocation of that run, and the
\* run never completes successfully; a failed run's last invocation is the
\* one that exited non-zero.
C1_FailFast ==
    \A t \in Tasks :
        /\ \A k \in DOMAIN procs[t] :
              Failed(procs[t][k]) => k = Len(procs[t]) /\ pc[t] \in {"wait", "failed", "cancelled"}
        /\ pc[t] = "failed" => Len(procs[t]) > 0 /\ Failed(Last(t))

C1_Witness ==
    \E t \in Tasks :
        /\ pc[t] = "failed"
        /\ Len(cfgs[t].features) = 2
        /\ Len(procs[t]) = 2
        /\ Failed(procs[t][2])

\* C2: the program's outcome is the AND of the four configurations: it
\* returns successfully only when every configuration has finished all its
\* invocations with exit code 0, never once some invocation has exited
\* non-zero, and it raises only when some invocation exited non-zero.
C2_OutcomeIsConjunction ==
    /\ mainpc = "returned" =>
          \A t \in Tasks :
              /\ pc[t] = "done"
              /\ Len(procs[t]) = Len(powerset(cfgs[t].features))
              /\ \A k \in DOMAIN procs[t] : Succeeded(procs[t][k])
    /\ (\E t \in Tasks : \E k \in DOMAIN procs[t] : Failed(procs[t][k])) => mainpc # "returned"
    /\ mainpc = "raised" => \E t \in Tasks : \E k \in DOMAIN procs[t] : Failed(procs[t][k])

C2_Witness ==
    /\ mainpc = "raised"
    /\ Cardinality({t \in Tasks : pc[t] = "done"}) = 3
    /\ Cardinality({t \in Tasks : pc[t] = "failed"}) = 1

\* C3 as stated: no configuration is ever cancelled, and when the program
\* has ended every configuration has either checked all its subsets or
\* failed on one of them.
C3_SiblingsRunToCompletion ==
    \A t \in Tasks :
        /\ pc[t] # "cancelled"
        /\ mainpc \in {"returned", "raised"} => pc[t] \in {"done", "failed"}

\* C3 amended: gather cancels nothing: while run is waiting, no configuration
\* is cancelled, whatever has failed. A configuration is cancelled only by
\* asyncio.run (Python 3.7+) after the first failure has propagated out of
\* run; under run_until_complete the unfinished configurations are left
\* suspended when the program ends.
C3_CancelledOnlyWhenProgramEnds ==
    \A t \in Tasks :
        /\ mainpc = "await" => pc[t] \in {"start", "wait", "done", "failed"}
        /\ pc[t] = "cancelled" =>
              mainpc = "raised" /\ outer.state = "exception" /\ version[2] >= 7
        /\ mainpc = "raised" /\ version[2] >= 7 => pc[t] \in {"done", "failed", "cancelled"}
        /\ mainpc = "raised" /\ version[2] < 7 => pc[t] \in {"start", "wait", "done", "failed"}

C3_Witness ==
    /\ mainpc = "raised"
    /\ \E t, u \in Tasks :
          /\ pc[t] = "failed"
          /\ Len(procs[t]) = 1
          /\ pc[u] = "cancelled"
          /\ Len(procs[u]) = 2
          /\ Last(u).status = "running"

\* C4: within one check run at most one subprocess is running, and every
\* subprocess but the latest has exited with code 0.
C4_OneSubprocessAtATime ==
    \A t \in Tasks :
        /\ Cardinality({k \in DOMAIN procs[t] : procs[t][k].status = "running"}) <= 1
        /\ \A k \in 1..(Len(procs[t]) - 1) : Succeeded(procs[t][k])

C4_Witness ==
    \E t, u \in Tasks :
        /\ t # u
        /\ Len(procs[t]) = 3
        /\ Last(t).status = "running"
        /\ Len(procs[u]) = 2
        /\ Last(u).status = "running"

\* C7: the k-th invocation of a check run is for the k-th element of
\* powerset(features) united with mandatory_features; for features
\* [sync, alloc] and no mandatory feature a fully successful run invokes
\* {}, {alloc}, {sync}, {sync, alloc} in that order.
C7_EnumeratorOrder ==
    \A t \in Tasks :
        /\ \A k \in DOMAIN procs[t] :
              FeaturesOf(procs[t][k].args) =
                  Range(powerset(cfgs[t].features)[k]) \cup cfgs[t].mandatory_features
        /\ (/\ cfgs[t].features = <<"sync", "alloc">>
            /\ cfgs[t].mandatory_features = {}
            /\ pc[t] = "done")
           => [k \in DOMAIN procs[t] |-> FeaturesOf(procs[t][k].args)]
                 = << {}, {"alloc"}, {"sync"}, {"sync", "alloc"} >>

C7_Witness ==
    \E t \in Tasks :
        /\ pc[t] = "done"
        /\ cfgs[t].features = <<"sync", "alloc">>
        /\ cfgs[t].mandatory_features = {}
        /\ Len(procs[t]) = 4
        /\ FeaturesOf(procs[t][2].args) = {"alloc"}

\* C8: every invocation's feature set contains every mandatory feature,
\* also those absent from the feature list.
C8_MandatoryInEverySubset ==
    \A t \in Tasks : \A k \in DOMAIN procs[t] :
        cfgs[t].mandatory_features \subseteq FeaturesOf(procs[t][k].args)

C8_Witness ==
    \E t \in Tasks :
        /\ cfgs[t].features = <<"sync">>
        /\ cfgs[t].mandatory_features = {"std"}
        /\ Len(procs[t]) = 2
        /\ FeaturesOf(procs[t][1].args) = {"std"}
        /\ FeaturesOf(procs[t][2].args) = {"sync", "std"}

\* C9: the error of a failed check run contains the argument list of the
\* failing invocation and what that subprocess wrote to standard error.
C9_ErrorCarriesArgsAndStderr ==
    \A t \in Tasks :
        pc[t] = "failed" =>
            /\ Contains(error[t], join(" ", Last(t).args))
            /\ Contains(error[t], Last(t).stderr)

\* C10: a check run over N features whose invocations all succeed issues
\* exactly 2^N invocations (one for an empty feature list), and the first
\* invocation of every run has no optional feature: its feature set is
\* exactly the mandatory set.
C10_BaselineAndCount ==
    \A t \in Tasks :
        /\ pc[t] = "done" => Len(procs[t]) = Pow2(Len(cfgs[t].features))
        /\ pc[t] \in {"wait", "done", "failed", "cancelled"} =>
              /\ Len(procs[t]) >= 1
              /\ FeaturesOf(procs[t][1].args) = cfgs[t].mandatory_features

C10_Witness ==
    \E t \in Tasks :
        /\ pc[t] = "done"
        /\ cfgs[t].features = <<>>
        /\ cfgs[t].mandatory_features = {}
        /\ Len(procs[t]) = 1
        /\ FeatureFlags(procs[t][1].args) = {}

\* C11: an invocation has a features flag exactly when its subset (the
\* enumerated subset united with the mandatory set) is non-empty; the flag
\* then lists exactly the members of the subset, each once, separated by
\* commas.
WellJoined(toks) ==
    /\ Len(toks) % 2 = 1
    /\ \A j \in DOMAIN toks : (j % 2 = 0) <=> (toks[j] = ",")

SplitNames(toks) == [j \in 1..((Len(toks) + 1) \div 2) |-> toks[2 * j - 1]]

C11_FeaturesFlag ==
    \A t \in Tasks : \A k \in DOMAIN procs[t] :
        LET S == Range(powerset(cfgs[t].features)[k]) \cup cfgs[t].mandatory_features
            a == procs[t][k].args
        IN  /\ (FeatureFlags(a) # {}) <=> (S # {})
            /\ Cardinality(FeatureFlags(a)) <= 1
            /\ \A f \in FeatureFlags(a) :
                  LET toks == Tail(a[f])
                  IN  /\ WellJoined(toks)
                      /\ Len(SplitNames(toks)) = Cardinality(S)
                      /\ Range(SplitNames(toks)) = S

C11_Witness ==
    \E t \in Tasks :
        /\ cfgs[t].features = <<"sync">>
        /\ cfgs[t].mandatory_features = {"sync", "alloc"}
        /\ Len(procs[t]) = 2
        /\ \E f \in FeatureFlags(procs[t][2].args) :
              Len(Tail(procs[t][2].args[f])) = 3

\* C12: every argument list is '+<toolchain>', 'check',
\* '--no-default-features', '--examples', then the features flag when the
\* subset is non-empty, then '--target=<target>' exactly when the
\* configuration has a target; without a target no argument is a target flag.
C12_ArgumentList ==
    \A t \in Tasks : \A k \in DOMAIN procs[t] :
        LET c == cfgs[t]
            S == Range(powerset(c.features)[k]) \cup c.mandatory_features
            a == procs[t][k].args
            nf == IF S # {} THEN 1 ELSE 0
            nt == IF c.target # NoTarget THEN 1 ELSE 0
        IN  /\ Len(a) = 4 + nf + nt
            /\ a[1] = <<"+", c.toolchain>>
            /\ a[2] = <<"check">>
            /\ a[3] = <<"--no-default-features">>
            /\ a[4] = <<"--examples">>
            /\ nf = 1 => a[5][1] = "--features="
            /\ nt = 1 => a[Len(a)] = <<"--target=", c.target>>
            /\ nt = 0 => \A j \in DOMAIN a : a[j][1] # "--target="

C12_Witness ==
    \E t \in Tasks :
        /\ cfgs[t].target = "wasm32-unknown-unknown"
        /\ cfgs[t].toolchain = "nightly"
        /\ Len(procs[t]) = 2
        /\ Len(procs[t][1].args) = 5
        /\ Len(procs[t][2].args) = 6
        /\ procs[t][2].args[6] = <<"--target=", "wasm32-unknown-unknown">>

\* C13: powerset leaves its argument as it was, a second call on the same
\* list returns the same subsets in the same order, and the lists of the
\* half without the pivot are those the recursive call returned, before and
\* after the half with the pivot is built.
C13_NoMutationRepeatable ==
    /\ ps_pc # "idle" => input = input0
    /\ ps_pc = "loop" => subset = powerset(Tail(input0))
    /\ (ps_pc = "returned" /\ Len(input0) > 0) =>
          SubSeq(result, 1, Len(result) \div 2) = powerset(Tail(input0))
    /\ (ps_pc = "returned" /\ calls >= 2) => result = prev

C13_Witness ==
    /\ ps_pc = "returned"
    /\ calls = 2
    /\ Len(input0) = 2
    /\ input = input0
    /\ Len(prev) = 4
    /\ result = prev

\* C14 as stated: when the program raises, the error it surfaces is that of
\* the configuration whose failing subprocess was the first to exit.
C14_FirstExitSurfaces ==
    mainpc = "raised" =>
        /\ firstExit \in Tasks
        /\ outer.exc = ErrorMessage(Last(firstExit).args, Last(firstExit).stderr)

\* C14 amended: the error run surfaces is that of the configuration whose
\* check was the first to raise, whatever its position among the launched
\* configurations; later failures do not replace it.
C14_FirstRaiseSurfaces ==
    /\ outer.state = "exception" <=> firstRaise # 0
    /\ outer.state = "exception" =>
          /\ pc[firstRaise] = "failed"
          /\ outer.exc = error[firstRaise]
          /\ outer.exc = ErrorMessage(Last(firstRaise).args, Last(firstRaise).stderr)
    /\ \A t, u \in Tasks :
          (t # u /\ pc[t] = "failed" /\ pc[u] = "failed") => error[t] # error[u]

C14_Witness ==
    /\ mainpc = "raised"
    /\ pc[1] = "failed"
    /\ pc[4] = "failed"
    /\ firstExit = 1
    /\ firstRaise = 4
    /\ outer.exc = error[4]

\* C15: if every subprocess that is not blocked writing its output exits,
\* every launched configuration ends in success or failure and the program
\* terminates, whatever amount a subprocess writes to standard error.
C15_EveryRunTerminates ==
    <>(\/ mainpc = "exit1"
       \/ /\ mainpc \in {"returned", "raised"}
          /\ \A t \in Tasks : pc[t] \in {"done", "failed"})

\* C16 as stated: for every feature list of distinct names and every
\* mandatory set, a check run without a failed invocation never invokes the
\* build tool twice with the same feature subset.
C16_NoSubsetTwice ==
    \A t \in Tasks :
        (\A k \in DOMAIN procs[t] : ~Failed(procs[t][k])) =>
            \A j, k \in DOMAIN procs[t] :
                j # k => FeaturesOf(procs[t][j].args) # FeaturesOf(procs[t][k].args)

\* C16 amended: when the mandatory set shares no name with the feature list
\* no subset is invoked twice; with s shared names a successful run over N
\* features still issues 2^N invocations, over 2^(N - s) distinct subsets.
C16_NoSubsetTwiceWhenDisjoint ==
    \A t \in Tasks :
        LET shared == cfgs[t].mandatory_features \cap Range(cfgs[t].features)
            sets == {FeaturesOf(procs[t][k].args) : k \in DOMAIN procs[t]}
        IN  /\ shared = {} =>
                 \A j, k \in DOMAIN procs[t] :
                     j # k => FeaturesOf(procs[t][j].args) # FeaturesOf(procs[t][k].args)
            /\ pc[t] = "done" =>
                 Cardinality(sets) = Pow2(Len(cfgs[t].features) - Cardinality(shared))

C16_Witness ==
    \E t \in Tasks :
        /\ pc[t] = "done"
        /\ cfgs[t].features = <<"sync", "alloc">>
        /\ cfgs[t].mandatory_features = {"std"}
        /\ {FeaturesOf(procs[t][k].args) : k \in DOMAIN procs[t]}
              = {{"std"}, {"std", "alloc"}, {"std", "sync"}, {"std", "sync", "alloc"}}

====
